---- MODULE Spec2Model ----
(***************************************************************************)
(* Model of notebooks/gan.ipynb: the cyclic batch generator                *)
(* `generator(array, batch_size)` and the training loop that draws one     *)
(* minibatch per iteration, calls inference.update with it and saves a     *)
(* figure of samples every n_print iterations.                             *)
(*                                                                         *)
(* Row indices are 0-based as in the source; TLA+ sequences are 1-based,   *)
(* so row r of `array` is array[r + 1].                                    *)
(***************************************************************************)
EXTENDS Integers, Sequences, FiniteSets

VARIABLES
  array,        \* x_train: a sequence of rows, each row a sequence of pixels
  batch_size,   \* M, the second argument of generator
  n_iter,       \* inference.n_iter
  n_print,      \* inference.n_print
  start,        \* generator: pointer to where we are in iteration
  batchRows,    \* generator: 0-based indices of the rows sliced into `batch`
  batch,        \* generator: the last batch yielded (x_batch in the loop)
  nBatches,     \* number of next(x_train_generator) calls made so far
  t,            \* loop variable of `for t in range(inference.n_iter)`
  i,            \* figure counter
  saved,        \* the savefig calls made so far, in order
  nUpdates,     \* number of completed inference.update calls
  updBatch,     \* the feed of the last inference.update
  updFrom,      \* which generator batch (1-based count) the last update used
  pc            \* position in the loop body: "top", "batch", "update", "done"

vars == <<array, batch_size, n_iter, n_print, start, batchRows, batch,
          nBatches, t, i, saved, nUpdates, updBatch, updFrom, pc>>

-----------------------------------------------------------------------------
(* Bounds of the model and configured values of the notebook *)

MaxN == 3          \* arrays have 1 .. MaxN rows
MaxBatch == 3      \* batch_size ranges over 1 .. MaxBatch
MaxIter == 5       \* n_iter ranges over 0 .. MaxIter in the small runs
MaxPrint == 3      \* n_print ranges over 1 .. MaxPrint in the small runs

NIter == 15000     \* inference.initialize(n_iter=15000, ...)
NPrint == 1000     \* inference.initialize(..., n_print=1000)
MaxPixel == 255    \* pixel intensities are divided by 255.0
ZFillWidth == 3    \* str(i).zfill(3)

\* Sample rows (images of two pixels): pixels 0 and 255 and a value in between.
Images == { <<0, MaxPixel>>, <<100, 0>> }

Arrays == UNION { [1..n -> Images] : n \in 1..MaxN }

\* The array and batch size used for the run with the configured n_iter, n_print.
ConfArray == << <<0, MaxPixel>>, <<100, 0>>, <<0, MaxPixel>> >>
ConfBatch == Len(ConfArray) - 1

-----------------------------------------------------------------------------
(* generator *)

\* array.shape[0]
Shape0(arr) == Len(arr)

Min(a, b) == IF a <= b THEN a ELSE b

\* Indices selected by the Python slice [lo:hi] of a sequence of n rows, for
\* lo, hi >= 0: both ends are clamped to n, an empty range selects nothing.
SliceIdx(n, lo, hi) ==
  LET l == Min(lo, n)
      h == Min(hi, n)
  IN  IF h <= l THEN << >> ELSE [k \in 1..(h - l) |-> l + k - 1]

\* Mutant: at the wrap-around the two pieces are concatenated in the wrong order.
GenStep_swapped(arr, st, bs) ==
  LET stop == st + bs
      diff == stop - Shape0(arr)
  IN  IF diff <= 0
        THEN [rows |-> SliceIdx(Shape0(arr), st, stop), start |-> st + bs]
        ELSE [rows |-> SliceIdx(Shape0(arr), 0, diff)
                         \o SliceIdx(Shape0(arr), st, Shape0(arr)),
              start |-> diff]

\* Mutant: at the wrap-around only the tail array[start:] is taken.
GenStep_nowrap(arr, st, bs) ==
  LET stop == st + bs
      diff == stop - Shape0(arr)
  IN  IF diff <= 0
        THEN [rows |-> SliceIdx(Shape0(arr), st, stop), start |-> st + bs]
        ELSE [rows |-> SliceIdx(Shape0(arr), st, Shape0(arr)), start |-> diff]

\* Mutant: at the wrap-around the pointer is reset to the start of the array.
GenStep_reset(arr, st, bs) ==
  LET stop == st + bs
      diff == stop - Shape0(arr)
  IN  IF diff <= 0
        THEN [rows |-> SliceIdx(Shape0(arr), st, stop), start |-> st + bs]
        ELSE [rows |-> SliceIdx(Shape0(arr), st, Shape0(arr))
                         \o SliceIdx(Shape0(arr), 0, diff),
              start |-> 0]

\* One pass of the body of `while True` up to the selection of the rows:
\* the rows sliced into `batch` and the new value of `start`.
GenStep(arr, st, bs) ==
  LET stop == st + bs
      diff == stop - Shape0(arr)
  IN  IF diff <= 0
        THEN [rows |-> SliceIdx(Shape0(arr), st, stop), start |-> st + bs]
        ELSE [rows |-> SliceIdx(Shape0(arr), st, Shape0(arr))
                         \o SliceIdx(Shape0(arr), 0, diff),
              start |-> diff]

\* Mutant: intensities are divided by 256 instead of 255.
Normalize_256(px) == [num |-> px, den |-> MaxPixel + 1]

\* batch.astype(np.float32) / 255.0, as the exact fraction px / 255
\* (0 / 255.0 is 0.0 and 255 / 255.0 is 1.0 exactly in float32).
Normalize(px) == [num |-> px, den |-> MaxPixel]

\* np.random.binomial(1, p): the values one draw can produce.
BinomialOutcomes(p) ==
  IF p.num = 0 THEN {0}
  ELSE IF p.num = p.den THEN {1}
  ELSE {0, 1}

RECURSIVE RowOutcomes(_)
\* The binarized rows a row of pixels can produce: one independent draw per pixel.
RowOutcomes(row) ==
  IF row = << >> THEN { << >> }
  ELSE { <<b>> \o r : b \in BinomialOutcomes(Normalize(Head(row))),
                      r \in RowOutcomes(Tail(row)) }

RECURSIVE Binarize(_, _)
\* The batches the normalize / binarize lines can yield for the selected rows.
Binarize(arr, rows) ==
  IF rows = << >> THEN { << >> }
  ELSE { <<r>> \o b : r \in RowOutcomes(arr[Head(rows) + 1]),
                      b \in Binarize(arr, Tail(rows)) }

-----------------------------------------------------------------------------
(* training loop *)

RECURSIVE Str(_)
\* str(i) for i >= 0: the decimal digits, most significant first.
Str(n) == IF n < 10 THEN <<n>> ELSE Str(n \div 10) \o <<n % 10>>

\* s.zfill(w): s padded on the left with zeros to width w.
ZFill(s, w) == IF Len(s) >= w THEN s ELSE [k \in 1..(w - Len(s)) |-> 0] \o s

\* Mutant: the zero padding is left out.
FigureName_nopad(n) == Str(n)

\* '{}.png'.format(str(i).zfill(3)): the digits of the file name.
FigureName(n) == ZFill(Str(n), ZFillWidth)

\* Mutant: the loop runs one iteration too many, range(n_iter + 1).
InRange_plus1(k, n) == k <= n

\* t in range(n): the loop body runs for t = 0 .. n - 1.
InRange(k, n) == k < n

\* Mutant: the figure is saved at the end of a period.
ShouldSave_late(k, np) == (k + 1) % np = 0

\* if t % inference.n_print == 0
ShouldSave(k, np) == k % np = 0

Init ==
  /\ \/ /\ array \in Arrays
        /\ batch_size \in 1..MaxBatch
        /\ n_iter \in 0..MaxIter
        /\ n_print \in 1..MaxPrint
     \/ /\ array = ConfArray
        /\ batch_size = ConfBatch
        /\ n_iter = NIter
        /\ n_print = NPrint
  /\ start = 0
  /\ batchRows = << >>
  /\ batch = << >>
  /\ nBatches = 0
  /\ t = 0
  /\ i = 0
  /\ saved = << >>
  /\ nUpdates = 0
  /\ updBatch = << >>
  /\ updFrom = 0
  /\ pc = "top"

\* The if-block of the loop body when its condition holds: save a figure.
SaveFigure ==
  /\ pc = "top"
  /\ InRange(t, n_iter)
  /\ ShouldSave(t, n_print)
  /\ saved' = Append(saved, [name |-> FigureName(i), i |-> i, t |-> t,
                             updates |-> nUpdates])
  /\ i' = i + 1
  /\ pc' = "batch"
  /\ UNCHANGED <<array, batch_size, n_iter, n_print, start, batchRows, batch,
                 nBatches, t, nUpdates, updBatch, updFrom>>

\* The if-block is skipped.
SkipFigure ==
  /\ pc = "top"
  /\ InRange(t, n_iter)
  /\ ~ShouldSave(t, n_print)
  /\ pc' = "batch"
  /\ UNCHANGED <<array, batch_size, n_iter, n_print, start, batchRows, batch,
                 nBatches, t, i, saved, nUpdates, updBatch, updFrom>>

\* Mutant: the loop reuses the batch it already holds instead of calling next().
TakeBatch_stale ==
  /\ pc = "batch"
  /\ pc' = "update"
  /\ UNCHANGED <<array, batch_size, n_iter, n_print, start, batchRows, batch,
                 nBatches, t, i, saved, nUpdates, updBatch, updFrom>>

\* x_batch = next(x_train_generator): one pass of the generator up to its yield.
TakeBatch ==
  /\ pc = "batch"
  /\ LET g == GenStep(array, start, batch_size)
     IN  /\ batchRows' = g.rows
         /\ start' = g.start
         /\ batch' \in Binarize(array, g.rows)
  /\ nBatches' = nBatches + 1
  /\ pc' = "update"
  /\ UNCHANGED <<array, batch_size, n_iter, n_print, t, i, saved, nUpdates,
                 updBatch, updFrom>>

\* inference.update(feed_dict={x_ph: x_batch}) and print_progress; the for
\* statement then advances t.
Update ==
  /\ pc = "update"
  /\ updBatch' = batch
  /\ updFrom' = nBatches
  /\ nUpdates' = nUpdates + 1
  /\ t' = t + 1
  /\ pc' = "top"
  /\ UNCHANGED <<array, batch_size, n_iter, n_print, start, batchRows, batch,
                 nBatches, i, saved>>

\* range(inference.n_iter) is exhausted: the loop ends.
Finish ==
  /\ pc = "top"
  /\ ~InRange(t, n_iter)
  /\ pc' = "done"
  /\ UNCHANGED <<array, batch_size, n_iter, n_print, start, batchRows, batch,
                 nBatches, t, i, saved, nUpdates, updBatch, updFrom>>

Next == SaveFigure \/ SkipFigure \/ TakeBatch \/ Update \/ Finish

Spec == Init /\ [][Next]_vars

\* The script is single-threaded and runs each statement to completion.
FairSpec == Spec /\ WF_vars(Next)

-----------------------------------------------------------------------------
(* Properties *)

N == Shape0(array)

\* The batch just taken straddles the end of the array.
Straddles ==
  /\ Len(batchRows) >= 2
  /\ \E j \in 1..(Len(batchRows) - 1) : batchRows[j + 1] < batchRows[j]

\* C1: for 1 <= batch_size <= N the k-th batch yielded (k = 0, 1, ...) is built
\* from the rows (k * batch_size + j) mod N, j = 0 .. batch_size - 1, in that
\* order (cyclic wrap-around, nothing skipped or repeated at the wrap).
C1_CyclicBatches ==
  (nBatches >= 1 /\ batch_size <= N) =>
     batchRows = [j \in 1..batch_size |->
                    ((nBatches - 1) * batch_size + (j - 1)) % N]

C1_Witness ==
  /\ nBatches >= 3
  /\ batch_size < N
  /\ Straddles
  /\ pc = "update"

\* C2: for 1 <= batch_size <= N every batch yielded has exactly batch_size
\* rows, also when it straddles the end of the array, and so has every feed
\* of inference.update.
C2_BatchHasBatchSizeRows ==
  (batch_size <= N) =>
     /\ nBatches >= 1 => (Len(batch) = batch_size /\ Len(batchRows) = batch_size)
     /\ nUpdates >= 1 => Len(updBatch) = batch_size

C2_Witness ==
  /\ nUpdates >= 2
  /\ batch_size <= N
  /\ Straddles
  /\ pc = "top"
  /\ Len(updBatch) = batch_size

\* C3: a figure is saved during iteration t iff t % n_print = 0, and it is saved
\* before that iteration's update: at every save the number of completed
\* updates is exactly t, a multiple of n_print.
C3_SaveEveryNPrint ==
  LET \* the iterations 0 .. hi have passed the if-statement
      hi == IF pc = "top" THEN t - 1 ELSE IF pc = "done" THEN n_iter - 1 ELSE t
  IN  \* the saves are at distinct multiples of n_print among 0 .. hi ...
      /\ \A k \in 1..Len(saved) :
            /\ saved[k].t \in 0..hi
            /\ saved[k].t % n_print = 0
            /\ k > 1 => saved[k - 1].t < saved[k].t
            /\ saved[k].updates = saved[k].t
            /\ saved[k].updates % n_print = 0
      \* ... and there are as many as 0 .. hi has multiples of n_print: all of them
      /\ Len(saved) = (hi + n_print) \div n_print

C3_Witness ==
  /\ Len(saved) >= 2
  /\ n_print >= 2
  /\ saved[Len(saved)].t = t
  /\ t > 0
  /\ pc = "batch"

\* C4: the loop terminates after exactly n_iter iterations; each iteration
\* takes exactly one minibatch from the generator and performs exactly one
\* update with it, so at termination n_iter batches were consumed and n_iter
\* updates performed, update number t using the t-th batch of the generator.
C4_Counts ==
  /\ t <= n_iter
  /\ nUpdates = t
  /\ nBatches = (IF pc = "update" THEN t + 1 ELSE t)
  /\ nUpdates >= 1 => updFrom = nUpdates
  /\ (nUpdates >= 1 /\ pc # "update") => updBatch = batch
  /\ pc = "done" => (t = n_iter /\ nBatches = n_iter /\ nUpdates = n_iter)

C4_TerminatesAfterNIter == []C4_Counts /\ <>(pc = "done")

C4_Witness ==
  /\ pc = "done"
  /\ n_iter = NIter
  /\ nUpdates = NIter
  /\ nBatches = NIter

\* C5: when n_print divides n_iter (n_iter > 0) the last figure saved is taken
\* after exactly n_iter - n_print updates and no figure is saved after the
\* final update; with n_iter = 15000 and n_print = 1000 that is 14000 updates.
C5_LastFigure ==
  (pc = "done" /\ n_iter > 0 /\ n_iter % n_print = 0) =>
     /\ saved # << >>
     /\ saved[Len(saved)].updates = n_iter - n_print
     /\ \A k \in 1..Len(saved) : saved[k].updates < nUpdates
     /\ (n_iter = NIter /\ n_print = NPrint) => saved[Len(saved)].updates = 14000

C5_Witness ==
  /\ pc = "done"
  /\ n_iter = NIter
  /\ n_print = NPrint
  /\ saved # << >>
  /\ saved[Len(saved)].updates = 14000

\* C6: every element of every batch yielded is 0 or 1; a source pixel of 0
\* yields 0 and a source pixel of 255 yields 1; producing a batch leaves the
\* source array unchanged.
C6_Elements ==
  nBatches >= 1 =>
     /\ Len(batch) = Len(batchRows)
     /\ \A j \in 1..Len(batch) :
          LET src == array[batchRows[j] + 1]
          IN  /\ Len(batch[j]) = Len(src)
              /\ \A e \in 1..Len(src) :
                    /\ batch[j][e] \in {0, 1}
                    /\ src[e] = 0 => batch[j][e] = 0
                    /\ src[e] = MaxPixel => batch[j][e] = 1

C6_Binarized == []C6_Elements /\ [][array' = array]_vars

C6_Witness ==
  /\ pc = "update"
  /\ \E j \in 1..Len(batch) : \E e \in 1..Len(batch[j]) :
        array[batchRows[j] + 1][e] = MaxPixel /\ batch[j][e] = 1
  /\ \E j \in 1..Len(batch) : \E e \in 1..Len(batch[j]) :
        array[batchRows[j] + 1][e] = 0 /\ batch[j][e] = 0
  /\ \E j \in 1..Len(batch) : \E e \in 1..Len(batch[j]) :
        array[batchRows[j] + 1][e] \notin {0, MaxPixel} /\ batch[j][e] = 1

\* C7: for 1 <= batch_size <= N, after k batches the pointer satisfies
\* 0 <= start <= N and start mod N = (k * batch_size) mod N, and the next
\* batch begins at the row that cyclically follows the last row of the
\* previous batch (row 0 when start = N).
C7_Pointer ==
  (batch_size <= N) =>
     /\ start \in 0..N
     /\ start % N = (nBatches * batch_size) % N
     /\ nBatches >= 1 =>
          GenStep(array, start, batch_size).rows[1]
            = (batchRows[Len(batchRows)] + 1) % N

C7_Witness ==
  /\ nBatches >= 2
  /\ batch_size < N
  /\ start = N
  /\ GenStep(array, start, batch_size).rows[1] = 0

\* C8: also for batch_size > N every batch has exactly batch_size rows that
\* continue the cyclic order of the rows, and start stays within 0 .. N.
C8_OversizedBatch ==
  (nBatches >= 1 /\ batch_size > N) =>
     /\ Len(batch) = batch_size
     /\ start \in 0..N
     /\ batchRows = [j \in 1..batch_size |->
                       ((nBatches - 1) * batch_size + (j - 1)) % N]

RECURSIVE DigitsValue(_)
\* The number a sequence of decimal digits denotes.
DigitsValue(s) ==
  IF s = << >> THEN 0
  ELSE 10 * DigitsValue(SubSeq(s, 1, Len(s) - 1)) + s[Len(s)]

\* C9: the figures of a run are numbered consecutively from 0 in the order
\* they are saved: at the save of iteration t the counter i is t / n_print,
\* the file name is i zero-padded to at least three digits, no two saves use
\* the same file name, and the run saves exactly ceil(n_iter / n_print)
\* figures (15 as configured, 000 to 014).
C9_FigureNumbering ==
  /\ \A k \in 1..Len(saved) :
        /\ saved[k].i = k - 1
        /\ saved[k].i * n_print = saved[k].t
        /\ Len(saved[k].name) >= ZFillWidth
        /\ \A e \in 1..Len(saved[k].name) : saved[k].name[e] \in 0..9
        /\ DigitsValue(saved[k].name) = saved[k].i
        /\ (Len(saved[k].name) > ZFillWidth) => saved[k].name[1] # 0
  /\ \A k, l \in 1..Len(saved) : saved[k].name = saved[l].name => k = l
  /\ i = Len(saved)
  /\ pc = "done" => Len(saved) = (n_iter + n_print - 1) \div n_print
  /\ (pc = "done" /\ n_iter = NIter /\ n_print = NPrint) =>
        /\ Len(saved) = 15
        /\ saved[1].name = <<0, 0, 0>>
        /\ saved[15].name = <<0, 1, 4>>

C9_Witness ==
  /\ pc = "done"
  /\ n_iter % n_print # 0
  /\ Len(saved) >= 2
  /\ saved[Len(saved)].name = <<0, 0, Len(saved) - 1>>

====
